---- MODULE Spec2Model ----
(***************************************************************************)
(* A model of yba.py: the task poller of invoke_yba_request and the        *)
(* release reconciler create_yba_release, against a remote YugabyteDB      *)
(* Anywhere instance whose answers are chosen nondeterministically.        *)
(*                                                                         *)
(* JSON objects are records: a Python  'k' in d  is  k \in DOMAIN d.       *)
(* Time is counted in whole seconds since the  start = time.time()  of     *)
(* the loop it bounds.                                                     *)
(***************************************************************************)
EXTENDS Integers, Sequences, FiniteSets, TLC

VARIABLES
    \* ---- invoke_yba_request (one call) ----
    wait,                \* argument wait
    customer_id,         \* argument customer_id ("" when not supplied)
    wait_timeout,        \* argument wait_timeout, seconds
    pc,                  \* position of the call
    elapsed,             \* time.time() - start
    submitted,           \* the exchanges of the submitted request (line 90)
    json_response,       \* parsed body of the submitted request
    json_task_response,  \* parsed body of the last task-status request, or unbound
    taskLog,             \* the task-status exchanges issued so far (line 120)
    exitBy,              \* how the call ended
    result,              \* what the call returned or raised
    \* ---- create_yba_release (invocations p) and the remote instance ----
    rel,                 \* rel[p]: the locals of invocation p
    inventory,           \* the remote release list, in the order GET returns it
    succeeded,           \* the (version, architecture) pairs an invocation returned for
    nextId,              \* index of the next release_uuid the remote hands out
    calls,               \* invocations started so far
    \* ---- _replicate_yba_kubernetes_universe_node_details (one call) ----
    source_nodes,        \* argument source_nodes
    target_nodes,        \* the list built so far
    nodes_pc,            \* position of the call
    \* ---- replicate_yba_kubernetes_universe (one call) and the remote instance ----
    rep,                 \* the arguments and locals of the call
    universes            \* how many remote universes carry source_name and name

pollVars == <<wait, customer_id, wait_timeout, pc, elapsed, submitted, json_response,
              json_task_response, taskLog, exitBy, result>>
relVars == <<rel, inventory, succeeded, nextId, calls>>
nodeVars == <<source_nodes, target_nodes, nodes_pc>>
repVars == <<rep, universes>>
vars == <<pollVars, relVars, nodeVars, repVars>>

----------------------------------------------------------------------------
\* Bounds of the model.

\* the longest the submitted request takes, seconds (its timeout argument caps it)
MaxReqDur == 3
\* the largest wait_timeout tried
MaxWaitTimeout == 4

\* invocations of create_yba_release in one run
MaxCalls == 2
\* the longest node list handed to the node transform
MaxNodes == 2

\* Program constants.
TaskReqTimeout == 1
PollInterval == 2
ExtractTimeout == 30
JobReqTimeout == 1
ExtractSleep == 1
DefaultWaitTimeout == 600

----------------------------------------------------------------------------
\* Values.

Has(d, k) == k \in DOMAIN d

\* A name that was never assigned (reading it raises UnboundLocalError).
Unbound == [unbound |-> TRUE]
NoResult == [kind |-> "none"]
Return(v) == [kind |-> "return", value |-> v]
Raise(e) == [kind |-> "raise", exc |-> e]
\* an exception whose message carries the value v
RaiseWith(e, v) == [kind |-> "raise", exc |-> e, arg |-> v]

\* One HTTP exchange as requests.request sees it: no response at all (a
\* connection error or a timeout), or a response with a status code and a body
\* that is JSON or not.
NoExchangeBody == [none |-> TRUE]
ConnFail == [net |-> "fail", code |-> 0, isJson |-> FALSE, body |-> NoExchangeBody]
\* The request reached the remote, which carried it out, and the response never
\* arrived within the timeout: to requests.request this is a failure as well.
Lost == [net |-> "lost", code |-> 0, isJson |-> FALSE, body |-> NoExchangeBody]
\* no request was sent yet
NoExchange == [net |-> "none", code |-> 0, isJson |-> FALSE, body |-> NoExchangeBody]
Resp(code, isJson, body) == [net |-> "resp", code |-> code, isJson |-> isJson, body |-> body]
Is2xx(x) == x.net = "resp" /\ x.code = 200

ErrorBody == [error |-> "e"]
ErrorBodyNoField == [message |-> "m"]

\* Answers to the submitted request.
SubmitBodies == {[taskUUID |-> "t1"], [name |-> "n"]}
SubmitExchanges ==
    {ConnFail}
    \cup {Resp(500, TRUE, b) : b \in {ErrorBody, ErrorBodyNoField}}
    \cup {Resp(500, FALSE, NoExchangeBody), Resp(200, FALSE, NoExchangeBody)}
    \cup {Resp(200, TRUE, b) : b \in SubmitBodies}

\* Answers to a task-status request: the remote task as it is at that moment.
TaskBodies ==
    {[percent |-> p, status |-> s] : p \in {50, 100},
                                      s \in {"Running", "Success", "Failure", "Aborted"}}
    \cup {[percent |-> 50], [status |-> "Failure"], ErrorBody}
TaskExchanges ==
    {ConnFail, Resp(200, FALSE, NoExchangeBody)}
    \cup {Resp(200, TRUE, b) : b \in TaskBodies}
    \cup {Resp(500, TRUE, ErrorBody)}

----------------------------------------------------------------------------
\* invoke_yba_request, lines 89-110: the submitted request and its parsing.
\* The except clause formats response.status_code and response.json()["error"]:
\* with no response at all the name response is unbound.
SubmitStep(x) ==
    IF x.net # "resp" THEN Raise("UnboundLocalError")
    ELSE IF x.code # 200 THEN
        IF ~x.isJson THEN Raise("JSONDecodeError")
        ELSE IF ~Has(x.body, "error") THEN Raise("KeyError")
        ELSE Raise("RuntimeError")
    ELSE IF ~x.isJson THEN Raise("ValueError")
    ELSE Return(x.body)

\* line 113: return the API response without polling
\* customer_id is not looked at
ReturnsSubmitResponse_NoCustomer(w, resp, cust) ==
    ~w \/ ~Has(resp, "taskUUID")
ReturnsSubmitResponse(w, resp, cust) ==
    ~w \/ ~Has(resp, "taskUUID") \/ cust = ""

\* line 117: the loop condition
\* the loop gives up one second early
WithinBudget_OneSecondEarly(e, wt) == e + 1 < wt
WithinBudget(e, wt) == e < wt

\* line 136: the invoked task has finished. Python evaluates percent first and
\* status only when percent is not 100; a missing key raises KeyError.
TaskKeyError(t) ==
    ~Has(t, "percent") \/ (t.percent # 100 /\ ~Has(t, "status"))
\* percent 100 counts only with status Success
TaskFinished_SuccessOnly(t) ==
    (t.percent = 100 /\ t.status = "Success") \/ t.status \in {"Aborted", "Failure"}
\* the earlier variant: percent alone decides
TaskFinished_PercentOnly(t) ==
    t.percent = 100
TaskFinished(t) ==
    t.percent = 100 \/ t.status \in {"Aborted", "Failure"}

\* lines 119-139: one iteration of the loop body, from the request to the
\* return, the raise or the sleep. prev is json_task_response before it.
\* a transport failure is swallowed and the loop goes on
PollStep_RetriesTransport(x, prev) ==
    IF x.net = "fail" THEN
        [pc |-> "sleep", task |-> prev, result |-> NoResult, exitBy |-> "none"]
    ELSE IF ~x.isJson THEN
        [pc |-> "done", task |-> prev, result |-> Raise("ValueError"), exitBy |-> "error"]
    ELSE IF TaskKeyError(x.body) THEN
        [pc |-> "done", task |-> x.body, result |-> Raise("KeyError"), exitBy |-> "error"]
    ELSE IF TaskFinished(x.body) THEN
        [pc |-> "done", task |-> x.body, result |-> Return(x.body), exitBy |-> "finished"]
    ELSE
        [pc |-> "sleep", task |-> x.body, result |-> NoResult, exitBy |-> "none"]
PollStep(x, prev) ==
    IF x.net = "fail" THEN
        [pc |-> "done", task |-> prev, result |-> Raise("RuntimeError"), exitBy |-> "error"]
    ELSE IF ~x.isJson THEN
        [pc |-> "done", task |-> prev, result |-> Raise("ValueError"), exitBy |-> "error"]
    ELSE IF TaskKeyError(x.body) THEN
        [pc |-> "done", task |-> x.body, result |-> Raise("KeyError"), exitBy |-> "error"]
    ELSE IF TaskFinished(x.body) THEN
        [pc |-> "done", task |-> x.body, result |-> Return(x.body), exitBy |-> "finished"]
    ELSE
        [pc |-> "sleep", task |-> x.body, result |-> NoResult, exitBy |-> "none"]

\* line 142: return the latest task after the loop
AfterLoop(task) ==
    IF task = Unbound THEN Raise("UnboundLocalError") ELSE Return(task)

----------------------------------------------------------------------------
\* create_yba_release: values.

Procs == {1, 2}
Versions == {"v1", "v2"}
\* what a package can resolve to: <<architecture, platform>>
Targets == {<<"x86_64", "LINUX">>, <<"aarch64", "LINUX">>, <<"x86_64", "KUBERNETES">>}
PackageUrls == {"pkgA", "pkgB"}
UuidPool == <<"u1", "u2", "u3", "u4", "u5", "u6">>

Art(u, pl, a) == [package_url |-> u, platform |-> pl, architecture |-> a]
Rel(v, id, arts) ==
    [version |-> v, release_uuid |-> id, yb_type |-> "YBDB", release_type |-> "STS",
     release_date_msecs |-> "0", artifacts |-> arts]

\* A JSON array body is carried as [items |-> <<...>>].
ListBody(rs) == [items |-> rs]
NoPayload == [none |-> TRUE]

\* The extraction job as the remote reports it.
JobMeta(v, a, pl) ==
    [status |-> "success", version |-> v, architecture |-> a, platform |-> pl,
     yb_type |-> "YBDB", release_type |-> "STS", release_date_msecs |-> "0"]
JobBodies ==
    {[resourceUUID |-> "job1"], [status |-> "running"], [status |-> "failure"]}
    \cup {JobMeta(v, t[1], t[2]) : v \in Versions, t \in Targets}
\* answers to POST extract_metadata
JobSubmitExchanges ==
    {ConnFail, Resp(500, TRUE, ErrorBody), Resp(200, FALSE, NoExchangeBody)}
    \cup {Resp(200, TRUE, b) : b \in {[resourceUUID |-> "job1"], [name |-> "n"]}}
\* answers to GET extract_metadata/<id>
JobExchanges ==
    {ConnFail, Resp(200, FALSE, NoExchangeBody), Resp(500, TRUE, ErrorBody)}
    \cup {Resp(200, TRUE, b) : b \in JobBodies}
\* answers to GET ybdb_release
ListExchanges(inv) ==
    {ConnFail, Resp(500, TRUE, ErrorBody), Resp(200, FALSE, NoExchangeBody),
     Resp(200, TRUE, ListBody(inv))}
\* answers to POST/PUT ybdb_release; body is what the remote answers on success
MutateExchanges(body) ==
    {ConnFail, Lost, Resp(500, TRUE, ErrorBody), Resp(200, FALSE, NoExchangeBody),
     Resp(200, TRUE, body)}

\* The remote carried the request out: it answered 2xx, or the answer was lost.
Accepted(x) == x.net = "lost" \/ Is2xx(x)

\* The remote's POST ybdb_release: the release it is sent is stored, at the end
\* of the list, under a fresh release_uuid.
RemoteCreate(inv, payload, id) ==
    Append(inv, [k \in DOMAIN payload \cup {"release_uuid"} |->
                    IF k = "release_uuid" THEN id ELSE payload[k]])
\* The remote's PUT ybdb_release/<release_uuid>: the release with that id is
\* replaced by the one it is sent.
RemoteUpdate(inv, payload) ==
    [i \in 1..Len(inv) |->
        IF inv[i].release_uuid = payload.release_uuid THEN payload ELSE inv[i]]

----------------------------------------------------------------------------
\* create_yba_release: the steps of the code.

\* line 563
\* the check is left out
HasJobId_Unchecked(metadata) == TRUE
HasJobId(metadata) == Has(metadata, "resourceUUID")

\* line 571: the condition of the extraction loop
\* the loop goes on until the job has succeeded
ExtractContinues_UntilSuccess(e, metadata) ==
    e < ExtractTimeout /\ (~Has(metadata, "status") \/ metadata.status # "success")
ExtractContinues(e, metadata) ==
    e < ExtractTimeout /\ (~Has(metadata, "status") \/ metadata.status = "running")

\* lines 573-584: one fetch of the job; the response's status code is not looked at
JobPollStep(x, prev) ==
    IF x.net # "resp" THEN [metadata |-> prev, result |-> Raise("RuntimeError")]
    ELSE IF ~x.isJson THEN [metadata |-> prev, result |-> Raise("JSONDecodeError")]
    ELSE [metadata |-> x.body, result |-> NoResult]

\* lines 573-586: the time after an iteration whose request took d seconds
\* the clock stands still
AfterJobPoll_ClockStopped(e, d) == e
AfterJobPoll(e, d) == e + d + ExtractSleep

\* lines 588-589: metadata is a dict by now, and the message reads metadata.text
AfterExtraction(metadata) ==
    IF ~Has(metadata, "version") THEN Raise("AttributeError") ELSE NoResult

\* line 600: index of the first release with the version, 0 for None
RECURSIVE FirstRelease(_, _, _)
FirstRelease(releases, version, i) ==
    IF i > Len(releases) THEN 0
    ELSE IF releases[i].version = version THEN i
    ELSE FirstRelease(releases, version, i + 1)
\* the first release is taken whatever its version
SelectRelease_FirstAlways(releases, version) == IF Len(releases) > 0 THEN 1 ELSE 0
SelectRelease(releases, version) == FirstRelease(releases, version, 1)

\* line 637: index of the first artifact with the architecture, 0 for None
RECURSIVE FirstPackage(_, _, _)
FirstPackage(artifacts, architecture, i) ==
    IF i > Len(artifacts) THEN 0
    ELSE IF artifacts[i].architecture = architecture THEN i
    ELSE FirstPackage(artifacts, architecture, i + 1)
\* no artifact is ever found
SelectPackage_Never(release, architecture) == 0
\* only the first artifact is looked at
SelectPackage_FirstOnly(release, architecture) ==
    IF Len(release.artifacts) > 0 /\ release.artifacts[1].architecture = architecture
    THEN 1 ELSE 0
SelectPackage(release, architecture) == FirstPackage(release.artifacts, architecture, 1)

\* lines 605-613
ReleaseParams(metadata, package_url) ==
    [version |-> metadata.version, yb_type |-> metadata.yb_type,
     platform |-> metadata.platform, architecture |-> metadata.architecture,
     package_url |-> package_url, release_type |-> metadata.release_type,
     release_date_msecs |-> metadata.release_date_msecs]

\* lines 615-621: templates/release.json rendered with the parameters
ReleasePayload(params) ==
    [version |-> params.version, yb_type |-> params.yb_type,
     release_type |-> params.release_type,
     release_date_msecs |-> params.release_date_msecs,
     artifacts |-> <<Art(params.package_url, params.platform, params.architecture)>>]

\* lines 645-651
\* the artifact list is replaced by the new artifact
AppendArtifact_Replaces(release, metadata, package_url) ==
    [release EXCEPT !.artifacts =
        <<Art(package_url, metadata.platform, metadata.architecture)>>]
AppendArtifact(release, metadata, package_url) ==
    [release EXCEPT !.artifacts =
        Append(@, Art(package_url, metadata.platform, metadata.architecture))]

\* lines 600-651: what to do with the fetched list
Reconcile(releases, metadata, package_url) ==
    LET i == SelectRelease(releases, metadata.version) IN
    IF i = 0 THEN
        [branch |-> "create", selected |-> NoPayload,
         payload |-> ReleasePayload(ReleaseParams(metadata, package_url))]
    ELSE IF SelectPackage(releases[i], metadata.architecture) # 0 THEN
        [branch |-> "noop", selected |-> releases[i], payload |-> NoPayload]
    ELSE
        [branch |-> "update", selected |-> releases[i],
         payload |-> AppendArtifact(releases[i], metadata, package_url)]

\* lines 624-632 and 654-662: the create or update request is the call's last
\* step, whatever its outcome. at is the position of the request.
\* a request that got no response is sent again
MutateStep_Retry(x, at) ==
    IF x.net # "resp" THEN [pc |-> at, result |-> NoResult]
    ELSE [pc |-> "done", result |-> SubmitStep(x)]
MutateStep(x, at) == [pc |-> "done", result |-> SubmitStep(x)]

\* The locals of an invocation that has not started.
IdleCall ==
    [pc |-> "idle", package_url |-> "", metadata |-> Unbound, elapsed |-> 0,
     submit |-> NoExchange, polled |-> FALSE, failedAt |-> "none",
     resolved |-> FALSE, listed |-> FALSE, releases |-> <<>>,
     branch |-> "none", selected |-> NoPayload,
     payload |-> NoPayload, sent |-> <<>>, result |-> NoResult,
     sawNon2xx |-> FALSE, reqAfterNon2xx |-> FALSE, inv0 |-> <<>>, prior |-> {}]

\* The release reconciler is not part of a run of the poller alone.
RelOff ==
    /\ rel = [p \in Procs |-> IdleCall]
    /\ inventory = <<>>
    /\ succeeded = {}
    /\ nextId = 1
    /\ calls = 0

----------------------------------------------------------------------------
\* _replicate_yba_kubernetes_universe_node_details, lines 969-1030.
\* JSON true, false and null are the tokens "true", "false" and "null"; a
\* number is a token as well.

Null == "null"
EmptyDict == [k \in {} |-> Null]
\* d.get(k) and d.get(k, default)
Get(d, k) == IF Has(d, k) THEN d[k] ELSE Null
GetOr(d, k, default) == IF Has(d, k) THEN d[k] ELSE default
\* the truth value Python gives a JSON scalar
Truthy(v) == v \notin {Null, "false", "", "0"}
\* d after  del d[k]  for each k of ks that d has
Without(d, ks) == [k \in DOMAIN d \ ks |-> d[k]]
\* d after  d[k] = upd[k]  for each key of upd
Updated(d, upd) ==
    [k \in DOMAIN d \cup DOMAIN upd |-> IF Has(upd, k) THEN upd[k] ELSE d[k]]

\* Source nodes: with and without a cloudInfo block and its runtime keys, with
\* isMaster true, false and not given, new and with values from an earlier life.
CloudInfoChoices ==
    {EmptyDict,
     [cloudInfo |-> [az |-> "a", kubernetesPodName |-> "p",
                     kubernetesNamespace |-> "ns", private_ip |-> "ip"]],
     [cloudInfo |-> [az |-> "a", private_ip |-> "ip"]]}
IsMasterChoices == {EmptyDict, [isMaster |-> "true"], [isMaster |-> "false"]}
NodeBases ==
    {[nodeIdx |-> "1", state |-> "Live"],
     [nodeIdx |-> "2", state |-> "Removed", masterState |-> "Configured",
      isRedisServer |-> "false", dedicatedTo |-> "TSERVER", isTserver |-> "true",
      masterHttpPort |-> "7000", nodeName |-> "n2"]}
SourceNodeSet ==
    {Updated(Updated(b, ci), m) : b \in NodeBases, ci \in CloudInfoChoices,
                                  m \in IsMasterChoices}
NodeLists == UNION {[1..n -> SourceNodeSet] : n \in 0..MaxNodes}

\* lines 1015-1020: the keys of a running pod are taken out of cloudInfo
\* only the pod name is taken out
StripRuntimeKeys_PodOnly(cloudInfo) == Without(cloudInfo, {"kubernetesPodName"})
StripRuntimeKeys(cloudInfo) ==
    Without(cloudInfo, {"kubernetesPodName", "kubernetesNamespace", "private_ip"})

\* lines 1023-1026: what a master is given
\* the values of the source win where it has them
MasterDefaults_SourceWins(node, target_node) ==
    IF Truthy(Get(node, "isMaster"))
    THEN Updated([masterState |-> "ToStart", isRedisServer |-> "true",
                  dedicatedTo |-> "MASTER"], target_node)
    ELSE target_node
MasterDefaults(node, target_node) ==
    IF Truthy(Get(node, "isMaster"))
    THEN Updated(target_node, [masterState |-> "ToStart", isRedisServer |-> "true",
                               dedicatedTo |-> "MASTER"])
    ELSE target_node

\* lines 982-1012: the fields copied with node.get; the ports and flags not
\* listed here are copied the way masterHttpPort and isTserver are
CopiedFields(node) ==
    [nodeIdx |-> Get(node, "nodeIdx"),
     cloudInfo |-> GetOr(node, "cloudInfo", EmptyDict),
     state |-> "ToBeAdded",
     isMaster |-> Get(node, "isMaster"),
     masterHttpPort |-> Get(node, "masterHttpPort"),
     isTserver |-> Get(node, "isTserver"),
     dedicatedTo |-> Get(node, "dedicatedTo")]

\* lines 982-1026: one iteration of the loop body
TargetNode(node) ==
    LET target_node == CopiedFields(node)
        stripped == [target_node EXCEPT !.cloudInfo = StripRuntimeKeys(@)]
    IN  MasterDefaults(node, stripped)

\* lines 979-1030: the whole function
RECURSIVE NodeDetails(_)
NodeDetails(nodes) ==
    IF nodes = <<>> THEN <<>>
    ELSE Append(NodeDetails(SubSeq(nodes, 1, Len(nodes) - 1)),
                TargetNode(nodes[Len(nodes)]))

\* The node transform is not part of a run of another function.
NodesOff ==
    /\ source_nodes = <<>>
    /\ target_nodes = <<>>
    /\ nodes_pc = "off"

----------------------------------------------------------------------------
\* replicate_yba_kubernetes_universe, lines 771-967: values.

SourceName == "src"
NewName == "dst"
SourceIds == <<"s1", "s2">>
DestinationIds == <<"d1", "d2", "d3">>
UnableToFind == RaiseWith("RuntimeError", "Unable to find an existing source universe")
AlreadyExists == RaiseWith("RuntimeError", "A universe with the new name already exists")

\* The overrides a caller can give; Null is Python's None.
NoOverrides ==
    [tserver_cpus |-> Null, tserver_memory |-> Null, tserver_storage |-> Null,
     master_cpus |-> Null, master_memory |-> Null]
OverrideChoices ==
    {NoOverrides,
     [NoOverrides EXCEPT !.master_cpus = "8"],
     [tserver_cpus |-> "4", tserver_memory |-> "16", tserver_storage |-> "500",
      master_cpus |-> "8", master_memory |-> "32"]}

\* Clusters of a source universe: a primary, a read replica (no master block),
\* and one without resource blocks at all.
UserIntent == [universeName |-> SourceName, ycqlPassword |-> "REDACTED",
               ysqlPassword |-> "REDACTED"]
ResourceSpec == [cpuCoreCount |-> "2", memoryGib |-> "4"]
PrimaryCluster ==
    [clusterType |-> "PRIMARY",
     userIntent |-> Updated(UserIntent,
                        [tserverK8SNodeResourceSpec |-> ResourceSpec,
                         masterK8SNodeResourceSpec |-> ResourceSpec,
                         deviceInfo |-> [volumeSize |-> "100"]])]
ReplicaCluster ==
    [clusterType |-> "ASYNC",
     userIntent |-> Updated(UserIntent,
                        [tserverK8SNodeResourceSpec |-> ResourceSpec,
                         deviceInfo |-> [volumeSize |-> "100"]])]
BareCluster == [clusterType |-> "ASYNC", userIntent |-> UserIntent]
ClusterChoices ==
    {[clusters |-> <<PrimaryCluster>>],
     [clusters |-> <<PrimaryCluster, ReplicaCluster>>, rootCA |-> "ca1"],
     [clusters |-> <<PrimaryCluster, BareCluster>>]}
XclusterChoices ==
    {EmptyDict,
     [xclusterInfo |-> EmptyDict],
     [xclusterInfo |-> [sourceRootCertDirPath |-> "/certs"]]}
DocNodes ==
    <<[nodeIdx |-> "1", state |-> "Live", isMaster |-> "true",
       cloudInfo |-> [az |-> "a", kubernetesPodName |-> "p",
                      kubernetesNamespace |-> "ns", private_ip |-> "ip"]],
      [nodeIdx |-> "2", state |-> "Live", isMaster |-> "false", isTserver |-> "true",
       cloudInfo |-> [az |-> "a", private_ip |-> "ip"]]>>
\* universeDetails of the source universe
DocBase ==
    [platformVersion |-> "2.20", nodePrefix |-> <<"yb-admin", SourceName>>,
     nodeDetailsSet |-> DocNodes]
SourceDocs ==
    {Updated(Updated(DocBase, c), x) : c \in ClusterChoices, x \in XclusterChoices}
    \cup {[platformVersion |-> "2.20", clusters |-> <<PrimaryCluster>>]}

\* answers to GET universes/find?name=..., with n universes of that name
FindExchanges(n, ids) ==
    {ConnFail, Resp(500, TRUE, ErrorBody), Resp(200, FALSE, NoExchangeBody),
     Resp(200, TRUE, ListBody(SubSeq(ids, 1, n)))}
\* answers to GET universes/<id>
SourceExchanges ==
    {ConnFail, Resp(500, TRUE, ErrorBody), Resp(200, TRUE, [name |-> SourceName])}
    \cup {Resp(200, TRUE, [universeDetails |-> d]) : d \in SourceDocs}

\* What the remote answers to universe_configure: the document it was sent,
\* filled in, with the passwords replaced by a placeholder or left out.
Redacted(payload) ==
    [payload EXCEPT !.clusters =
        [i \in 1..Len(@) |->
            [@[i] EXCEPT !.userIntent =
                Updated(@, [ycqlPassword |-> "REDACTED", ysqlPassword |-> "REDACTED"])]]]
PasswordsDropped(payload) ==
    [payload EXCEPT !.clusters =
        [i \in 1..Len(@) |->
            [@[i] EXCEPT !.userIntent = Without(@, {"ycqlPassword", "ysqlPassword"})]]]
FilledIn(doc) == Updated(doc, [currentClusterType |-> "PRIMARY"])
ConfigureExchanges(payload) ==
    {ConnFail, Resp(500, TRUE, ErrorBody), Resp(200, FALSE, NoExchangeBody),
     Resp(200, TRUE, [name |-> NewName]),
     Resp(200, TRUE, FilledIn(Redacted(payload))),
     Resp(200, TRUE, FilledIn(PasswordsDropped(payload)))}
\* answers to POST universes
CreateExchanges ==
    {ConnFail, Lost, Resp(500, TRUE, ErrorBody), Resp(200, FALSE, NoExchangeBody)}
    \cup {Resp(200, TRUE, b) : b \in SubmitBodies}

----------------------------------------------------------------------------
\* replicate_yba_kubernetes_universe: the steps.

\* line 826
\* an empty answer alone is refused
SourceUnique_NonEmpty(source_universe_id) == Len(source_universe_id.items) >= 1
SourceUnique(source_universe_id) == Len(source_universe_id.items) = 1

\* line 838
\* the answer is not looked at
DestinationTaken_Never(destination_universe) == FALSE
\* one match is let through
DestinationTaken_ManyOnly(destination_universe) == Len(destination_universe.items) > 1
DestinationTaken(destination_universe) == Len(destination_universe.items) > 0

\* str.removesuffix on a name kept as its parts, then + name (line 882)
RemoveSuffix(parts, suffix) ==
    IF Len(parts) > 0 /\ parts[Len(parts)] = suffix
    THEN SubSeq(parts, 1, Len(parts) - 1) ELSE parts

\* lines 929-934: an override on a block the cluster does not have
ClusterKeyError(cluster, args) ==
    \/ /\ Truthy(args.tserver_cpus) \/ Truthy(args.tserver_memory)
       /\ ~Has(cluster.userIntent, "tserverK8SNodeResourceSpec")
    \/ /\ Truthy(args.tserver_storage)
       /\ ~Has(cluster.userIntent, "deviceInfo")

\* d[k][f] = v when v is given and cond holds
Override(d, k, f, v, cond) ==
    IF Truthy(v) /\ cond THEN Updated(d, [x \in {k} |-> Updated(d[k], [y \in {f} |-> v])])
    ELSE d

\* lines 922-939: one iteration of the loop over the clusters
\* the master overrides are not guarded: a cluster without the block gets one
ClusterOverrides_Unguarded(cluster, name, ycql_password, ysql_password, args) ==
    LET u0 == Updated(cluster.userIntent,
                  [universeName |-> name, ycqlPassword |-> ycql_password,
                   ysqlPassword |-> ysql_password])
        u1 == Override(u0, "tserverK8SNodeResourceSpec", "cpuCoreCount",
                       args.tserver_cpus, TRUE)
        u2 == Override(u1, "tserverK8SNodeResourceSpec", "memoryGib",
                       args.tserver_memory, TRUE)
        u3 == Override(u2, "deviceInfo", "volumeSize", args.tserver_storage, TRUE)
        u4 == IF Truthy(args.master_cpus)
              THEN Updated(u3, [masterK8SNodeResourceSpec |->
                        Updated(GetOr(u3, "masterK8SNodeResourceSpec", EmptyDict),
                                [cpuCoreCount |-> args.master_cpus])])
              ELSE u3
        u5 == IF Truthy(args.master_memory)
              THEN Updated(u4, [masterK8SNodeResourceSpec |->
                        Updated(GetOr(u4, "masterK8SNodeResourceSpec", EmptyDict),
                                [memoryGib |-> args.master_memory])])
              ELSE u4
    IN  [cluster EXCEPT !.userIntent = u5]
ClusterOverrides(cluster, name, ycql_password, ysql_password, args) ==
    LET u0 == Updated(cluster.userIntent,
                  [universeName |-> name, ycqlPassword |-> ycql_password,
                   ysqlPassword |-> ysql_password])
        u1 == Override(u0, "tserverK8SNodeResourceSpec", "cpuCoreCount",
                       args.tserver_cpus, TRUE)
        u2 == Override(u1, "tserverK8SNodeResourceSpec", "memoryGib",
                       args.tserver_memory, TRUE)
        u3 == Override(u2, "deviceInfo", "volumeSize", args.tserver_storage, TRUE)
        u4 == Override(u3, "masterK8SNodeResourceSpec", "cpuCoreCount",
                       args.master_cpus, Has(u3, "masterK8SNodeResourceSpec"))
        u5 == Override(u4, "masterK8SNodeResourceSpec", "memoryGib",
                       args.master_memory, Has(u4, "masterK8SNodeResourceSpec"))
    IN  [cluster EXCEPT !.userIntent = u5]

\* lines 848-942 when nothing raises: the configure payload. The fields copied
\* with source_universe.get that are not listed are copied the way
\* platformVersion is.
ConfigureDoc(su, source_name, name, ycql_password, ysql_password, args) ==
    LET clusters == GetOr(su, "clusters", <<>>)
        doc ==
            [platformVersion |-> Get(su, "platformVersion"),
             universeUUID |-> "uuid1",
             ybcInstalled |-> "false",
             nodeDetailsSet |-> NodeDetails(GetOr(su, "nodeDetailsSet", <<>>)),
             clusters |-> [i \in 1..Len(clusters) |->
                              ClusterOverrides(clusters[i], name, ycql_password,
                                               ysql_password, args)],
             nodePrefix |-> Append(RemoveSuffix(su.nodePrefix, source_name), name),
             sequenceNumber |-> "-1",
             clusterOperation |-> "CREATE",
             allowGeoPartitioning |-> "false",
             regionsChanged |-> "false",
             xclusterInfo |-> Without(GetOr(su, "xclusterInfo", EmptyDict),
                                      {"sourceRootCertDirPath"})]
        rootCA == IF Truthy(Get(su, "rootCA")) THEN [rootCA |-> su.rootCA]
                  ELSE EmptyDict
        clientRootCA == IF Truthy(Get(su, "clientRootCA"))
                        THEN [clientRootCA |-> su.clientRootCA] ELSE EmptyDict
    IN  Updated(Updated(doc, rootCA), clientRootCA)

\* lines 842-942: from the fetched source universe to the configure payload,
\* or the first exception on the way
BuildConfigure(source_universe, source_name, name, ycql_password, ysql_password, args) ==
    IF ~Has(source_universe, "universeDetails") THEN Raise("KeyError")
    ELSE
        LET su == source_universe.universeDetails
            clusters == GetOr(su, "clusters", <<>>)
        IN  IF ~Has(su, "nodePrefix") THEN Raise("AttributeError")
            ELSE IF \E i \in 1..Len(clusters) : ClusterKeyError(clusters[i], args)
                 THEN Raise("KeyError")
            ELSE IF ~Has(GetOr(su, "xclusterInfo", EmptyDict), "sourceRootCertDirPath")
                 THEN Raise("KeyError")
            ELSE Return(ConfigureDoc(su, source_name, name, ycql_password,
                                     ysql_password, args))

\* lines 952-955: the passwords are put back into the configure response
\* only the first cluster gets them
RestorePasswords_FirstCluster(configured_universe, ycql_password, ysql_password) ==
    [configured_universe EXCEPT !.clusters =
        [i \in 1..Len(@) |->
            IF i > 1 THEN @[i]
            ELSE [@[i] EXCEPT !.userIntent =
                    Updated(@, [ycqlPassword |-> ycql_password,
                                ysqlPassword |-> ysql_password])]]]
RestorePasswords(configured_universe, ycql_password, ysql_password) ==
    [configured_universe EXCEPT !.clusters =
        [i \in 1..Len(@) |->
            [@[i] EXCEPT !.userIntent =
                Updated(@, [ycqlPassword |-> ycql_password,
                            ysqlPassword |-> ysql_password])]]]

\* line 957
\* the preview is never taken
ReturnsPreview_Never(what_if) == FALSE
ReturnsPreview(what_if) == what_if

\* json.dumps(configured_universe): the document as text
Dumps(doc) == [dumps |-> doc]

\* lines 961-967, and lines 89-114 of the request they make with wait = True
\* a request that got no response is sent again
CreateStep_Retry(x, cust) ==
    IF x.net # "resp" THEN [pc |-> "create", result |-> NoResult]
    ELSE LET r == SubmitStep(x) IN
         IF r.kind = "raise" THEN [pc |-> "done", result |-> r]
         ELSE IF ReturnsSubmitResponse(TRUE, r.value, cust)
              THEN [pc |-> "done", result |-> Return(r.value)]
         ELSE [pc |-> "await_test", result |-> NoResult]
CreateStep(x, cust) ==
    LET r == SubmitStep(x) IN
    IF r.kind = "raise" THEN [pc |-> "done", result |-> r]
    ELSE IF ReturnsSubmitResponse(TRUE, r.value, cust)
         THEN [pc |-> "done", result |-> Return(r.value)]
    ELSE [pc |-> "await_test", result |-> NoResult]

\* The locals of the call before its first request.
NewReplicate(what_if, args) ==
    [pc |-> "find_source", customer_id |-> "c1",
     source_name |-> SourceName, name |-> NewName,
     ycql_password |-> "cqlpw", ysql_password |-> "sqlpw",
     args |-> args, what_if |-> what_if,
     source_universe_id |-> Unbound, source_universe |-> Unbound,
     destination_universe |-> Unbound,
     configure_universe |-> NoPayload, configure_response |-> NoPayload,
     configured_universe |-> NoPayload,
     reqs |-> <<>>, sent |-> NoPayload, create |-> NoExchange,
     elapsed |-> 0, json_task_response |-> Unbound, polled |-> FALSE,
     failedAt |-> "none", result |-> NoResult, universes0 |-> NoPayload]

\* Replication is not part of a run of another function.
RepOff ==
    /\ rep = [NewReplicate(FALSE, NoOverrides) EXCEPT !.pc = "off"]
    /\ universes = [src |-> 0, dst |-> 0]

----------------------------------------------------------------------------
\* The call's arguments are drawn at the start; start = time.time() (line 69).
InitPoll ==
    /\ wait \in BOOLEAN
    /\ customer_id \in {"", "c1"}
    /\ wait_timeout \in 0..MaxWaitTimeout
    /\ pc = "submit"
    /\ elapsed = 0
    /\ submitted = <<>>
    /\ json_response = Unbound
    /\ json_task_response = Unbound
    /\ taskLog = <<>>
    /\ exitBy = "none"
    /\ result = NoResult
    /\ RelOff
    /\ NodesOff
    /\ RepOff

\* lines 89-114
Submit ==
    /\ pc = "submit"
    /\ \E x \in SubmitExchanges, d \in 0..MaxReqDur :
        LET r == SubmitStep(x) IN
        /\ submitted' = Append(submitted, x)
        /\ elapsed' = elapsed + d
        /\ IF r.kind = "raise"
           THEN /\ pc' = "done"
                /\ result' = r
                /\ exitBy' = "error"
                /\ UNCHANGED json_response
           ELSE /\ json_response' = r.value
                /\ IF ReturnsSubmitResponse(wait, r.value, customer_id)
                   THEN /\ pc' = "done"
                        /\ result' = Return(r.value)
                        /\ exitBy' = "nowait"
                   ELSE /\ pc' = "loop"
                        /\ UNCHANGED <<result, exitBy>>
    /\ UNCHANGED <<wait, customer_id, wait_timeout, json_task_response, taskLog>>
    /\ UNCHANGED <<relVars, nodeVars, repVars>>

\* line 117, and line 142 when the condition is false
LoopTest ==
    /\ pc = "loop"
    /\ IF WithinBudget(elapsed, wait_timeout)
       THEN /\ pc' = "poll"
            /\ UNCHANGED <<result, exitBy>>
       ELSE /\ pc' = "done"
            /\ result' = AfterLoop(json_task_response)
            /\ exitBy' = "timeout"
    /\ UNCHANGED <<wait, customer_id, wait_timeout, elapsed, submitted, json_response,
                   json_task_response, taskLog>>
    /\ UNCHANGED <<relVars, nodeVars, repVars>>

\* lines 119-137
PollTask ==
    /\ pc = "poll"
    /\ \E x \in TaskExchanges, d \in 0..TaskReqTimeout :
        LET s == PollStep(x, json_task_response) IN
        /\ taskLog' = Append(taskLog, x)
        /\ elapsed' = elapsed + d
        /\ json_task_response' = s.task
        /\ pc' = s.pc
        /\ result' = s.result
        /\ exitBy' = s.exitBy
    /\ UNCHANGED <<wait, customer_id, wait_timeout, submitted, json_response>>
    /\ UNCHANGED <<relVars, nodeVars, repVars>>

\* line 139
Sleep ==
    /\ pc = "sleep"
    /\ elapsed' = elapsed + PollInterval
    /\ pc' = "loop"
    /\ UNCHANGED <<wait, customer_id, wait_timeout, submitted, json_response,
                   json_task_response, taskLog, exitBy, result>>
    /\ UNCHANGED <<relVars, nodeVars, repVars>>

Next == Submit \/ LoopTest \/ PollTask \/ Sleep

Spec == InitPoll /\ [][Next]_vars

----------------------------------------------------------------------------
\* create_yba_release against the remote instance.

\* The remote inventory at the start: at most one release per version, at most
\* one artifact per architecture in a release.
InitialInventories ==
    {<<>>,
     <<Rel("v1", "id1", <<Art("pkg0", "LINUX", "x86_64")>>)>>,
     <<Rel("v2", "id2", <<Art("pkg0", "LINUX", "aarch64")>>),
       Rel("v1", "id1", <<Art("pkg1", "LINUX", "ppc64le"), Art("pkg0", "LINUX", "x86_64")>>)>>}

\* The poller alone is not part of a run of the release reconciler.
PollOff ==
    /\ wait = FALSE
    /\ customer_id = "c1"
    /\ wait_timeout = 0
    /\ pc = "off"
    /\ elapsed = 0
    /\ submitted = <<>>
    /\ json_response = Unbound
    /\ json_task_response = Unbound
    /\ taskLog = <<>>
    /\ exitBy = "none"
    /\ result = NoResult

InitRelease ==
    /\ PollOff
    /\ rel = [p \in Procs |-> IdleCall]
    /\ inventory \in InitialInventories
    /\ succeeded = {}
    /\ nextId = 1
    /\ calls = 0
    /\ NodesOff
    /\ RepOff

\* A request is issued and answered by x: remember whether a non-2xx answer was
\* seen, and whether a request followed one.
Issued(r, x) ==
    [r EXCEPT !.reqAfterNon2xx = @ \/ r.sawNon2xx,
              !.sawNon2xx = @ \/ (x.net = "resp" /\ x.code # 200)]

\* The pair the package resolved to.
Resolved(r) == <<r.metadata.version, r.metadata.architecture>>

\* create_yba_release(package_url) is called
Call(p) ==
    /\ calls < MaxCalls
    /\ rel[p].pc \in {"idle", "done"}
    /\ \E u \in PackageUrls :
        rel' = [rel EXCEPT ![p] = [IdleCall EXCEPT !.pc = "extract", !.package_url = u,
                                                   !.inv0 = inventory, !.prior = succeeded]]
    /\ calls' = calls + 1
    /\ UNCHANGED <<inventory, succeeded, nextId>>
    /\ UNCHANGED <<pollVars, nodeVars, repVars>>

\* lines 554-570
ExtractSubmit(p) ==
    /\ rel[p].pc = "extract"
    /\ \E x \in JobSubmitExchanges :
        LET r == SubmitStep(x)
            c == Issued(rel[p], x) IN
        rel' = [rel EXCEPT ![p] =
            IF r.kind = "raise"
            THEN [c EXCEPT !.pc = "done", !.submit = x, !.result = r,
                           !.failedAt = "submit"]
            ELSE IF ~HasJobId(r.value)
                 THEN [c EXCEPT !.pc = "done", !.submit = x, !.metadata = r.value,
                                !.result = RaiseWith("ValueError", r.value),
                                !.failedAt = "jobid"]
            ELSE [c EXCEPT !.pc = "extract_test", !.submit = x, !.metadata = r.value,
                           !.elapsed = 0]]
    /\ UNCHANGED <<inventory, succeeded, nextId, calls>>
    /\ UNCHANGED <<pollVars, nodeVars, repVars>>

\* line 571, and lines 588-589 when the condition is false. The time is not
\* read again after the loop.
ExtractTest(p) ==
    /\ rel[p].pc = "extract_test"
    /\ LET r == AfterExtraction(rel[p].metadata) IN
       rel' = [rel EXCEPT ![p] =
            IF ExtractContinues(rel[p].elapsed, rel[p].metadata)
            THEN [@ EXCEPT !.pc = "extract_poll"]
            ELSE IF r.kind = "raise"
                 THEN [@ EXCEPT !.pc = "done", !.result = r, !.elapsed = 0,
                                !.failedAt = "version"]
            ELSE [@ EXCEPT !.pc = "list", !.resolved = TRUE, !.elapsed = 0]]
    /\ UNCHANGED <<inventory, succeeded, nextId, calls>>
    /\ UNCHANGED <<pollVars, nodeVars, repVars>>

\* lines 573-586
ExtractPoll(p) ==
    /\ rel[p].pc = "extract_poll"
    /\ \E x \in JobExchanges, d \in 0..JobReqTimeout :
        LET s == JobPollStep(x, rel[p].metadata)
            c == Issued(rel[p], x) IN
        rel' = [rel EXCEPT ![p] =
            IF s.result.kind = "raise"
            THEN [c EXCEPT !.pc = "done", !.result = s.result, !.elapsed = 0,
                           !.polled = TRUE, !.failedAt = "poll"]
            ELSE [c EXCEPT !.pc = "extract_test", !.metadata = s.metadata,
                           !.polled = TRUE, !.elapsed = AfterJobPoll(@, d)]]
    /\ UNCHANGED <<inventory, succeeded, nextId, calls>>
    /\ UNCHANGED <<pollVars, nodeVars, repVars>>

\* lines 593-651: the list is fetched and the branch is taken; the no-op branch
\* returns the fetched release (line 640)
ListReleases(p) ==
    /\ rel[p].pc = "list"
    /\ \E x \in ListExchanges(inventory) :
        LET r == SubmitStep(x)
            c == [Issued(rel[p], x) EXCEPT
                    !.listed = (r.kind = "return"),
                    !.releases = IF r.kind = "return" THEN r.value.items ELSE @]
            d == Reconcile(r.value.items, rel[p].metadata, rel[p].package_url) IN
        IF r.kind = "raise"
        THEN /\ rel' = [rel EXCEPT ![p] = [c EXCEPT !.pc = "done", !.result = r]]
             /\ UNCHANGED succeeded
        ELSE IF d.branch = "noop"
        THEN /\ rel' = [rel EXCEPT ![p] =
                    [c EXCEPT !.pc = "done", !.branch = d.branch, !.selected = d.selected,
                              !.result = Return(d.selected)]]
             /\ succeeded' = succeeded \cup {Resolved(rel[p])}
        ELSE /\ rel' = [rel EXCEPT ![p] =
                    [c EXCEPT !.pc = d.branch, !.branch = d.branch,
                              !.selected = d.selected, !.payload = d.payload]]
             /\ UNCHANGED succeeded
    /\ UNCHANGED <<inventory, nextId, calls>>
    /\ UNCHANGED <<pollVars, nodeVars, repVars>>

\* lines 624-632: POST ybdb_release
CreateRelease(p) ==
    /\ rel[p].pc = "create"
    /\ nextId <= Len(UuidPool)
    /\ \E x \in MutateExchanges([resourceUUID |-> UuidPool[nextId]]) :
        LET s == MutateStep(x, "create")
            c == Issued(rel[p], x) IN
        /\ rel' = [rel EXCEPT ![p] =
                [c EXCEPT !.pc = s.pc, !.result = s.result,
                          !.sent = Append(@, [method |-> "POST",
                                              payload |-> rel[p].payload, x |-> x])]]
        /\ inventory' = IF Accepted(x)
                        THEN RemoteCreate(inventory, rel[p].payload, UuidPool[nextId])
                        ELSE inventory
        /\ nextId' = IF Accepted(x) THEN nextId + 1 ELSE nextId
        /\ succeeded' = IF s.result.kind = "return"
                        THEN succeeded \cup {Resolved(rel[p])} ELSE succeeded
    /\ UNCHANGED calls
    /\ UNCHANGED <<pollVars, nodeVars, repVars>>

\* lines 654-662: PUT ybdb_release/<release_uuid>
UpdateRelease(p) ==
    /\ rel[p].pc = "update"
    /\ \E x \in MutateExchanges(rel[p].payload) :
        LET s == MutateStep(x, "update")
            c == Issued(rel[p], x) IN
        /\ rel' = [rel EXCEPT ![p] =
                [c EXCEPT !.pc = s.pc, !.result = s.result,
                          !.sent = Append(@, [method |-> "PUT",
                                              payload |-> rel[p].payload, x |-> x])]]
        /\ inventory' = IF Accepted(x) THEN RemoteUpdate(inventory, rel[p].payload)
                        ELSE inventory
        /\ succeeded' = IF s.result.kind = "return"
                        THEN succeeded \cup {Resolved(rel[p])} ELSE succeeded
    /\ UNCHANGED <<nextId, calls>>
    /\ UNCHANGED <<pollVars, nodeVars, repVars>>

\* Invocations one after the other: all of them are run by caller 1.
SeqProcs == {1}

NextRelease ==
    \E p \in SeqProcs :
        \/ Call(p)
        \/ ExtractSubmit(p)
        \/ ExtractTest(p)
        \/ ExtractPoll(p)
        \/ ListReleases(p)
        \/ CreateRelease(p)
        \/ UpdateRelease(p)

SpecRelease == InitRelease /\ [][NextRelease]_vars

----------------------------------------------------------------------------
\* The two loops that wait on the remote, each run to its end: a call of
\* invoke_yba_request, or the extraction of one invocation of
\* create_yba_release. The code is sequential and every request has a
\* timeout, so a step that can be taken is taken.
InitExtract ==
    /\ PollOff
    /\ NodesOff
    /\ RepOff
    /\ inventory = <<>>
    /\ succeeded = {}
    /\ nextId = 1
    /\ calls = 1
    /\ \E u \in PackageUrls :
        rel = [p \in Procs |->
                 IF p = 1 THEN [IdleCall EXCEPT !.pc = "extract", !.package_url = u]
                 ELSE IdleCall]

InitLive == InitPoll \/ InitExtract

NextLive ==
    \/ Submit
    \/ LoopTest
    \/ PollTask
    \/ Sleep
    \/ ExtractSubmit(1)
    \/ ExtractTest(1)
    \/ ExtractPoll(1)

SpecLive == InitLive /\ [][NextLive]_vars /\ WF_vars(NextLive)

----------------------------------------------------------------------------
\* Two invocations of create_yba_release at the same time. The extraction of
\* an invocation shares nothing with the other invocation, so the run starts
\* where both have their metadata and are about to fetch the list (line 593).
AfterExtractionCall(u, m, inv) ==
    [IdleCall EXCEPT !.pc = "list", !.package_url = u, !.metadata = m,
                     !.submit = Resp(200, TRUE, [resourceUUID |-> "job1"]),
                     !.polled = TRUE, !.resolved = TRUE, !.inv0 = inv]

\* what the two packages can resolve to
ConcurrentTargets == Targets \cup {<<"ppc64le", "LINUX">>}

InitConcurrent ==
    /\ PollOff
    /\ NodesOff
    /\ RepOff
    /\ inventory \in InitialInventories
    /\ \E m1, m2 \in {JobMeta(v, t[1], t[2]) : v \in Versions, t \in ConcurrentTargets} :
        rel = [p \in Procs |->
                 IF p = 1 THEN AfterExtractionCall("pkgA", m1, inventory)
                 ELSE AfterExtractionCall("pkgB", m2, inventory)]
    /\ succeeded = {}
    /\ nextId = 1
    /\ calls = Cardinality(Procs)

NextConcurrent ==
    \E p \in Procs :
        \/ ListReleases(p)
        \/ CreateRelease(p)
        \/ UpdateRelease(p)

SpecConcurrent == InitConcurrent /\ [][NextConcurrent]_vars

----------------------------------------------------------------------------
\* _replicate_yba_kubernetes_universe_node_details as a process: the list is
\* drawn at the start and the loop of line 981 takes one node at a time.
InitNodes ==
    /\ source_nodes \in NodeLists
    /\ target_nodes = <<>>
    /\ nodes_pc = "loop"
    /\ PollOff
    /\ RelOff
    /\ RepOff

\* lines 981-1028: one iteration
TransformNode ==
    /\ nodes_pc = "loop"
    /\ Len(target_nodes) < Len(source_nodes)
    /\ target_nodes' = Append(target_nodes, TargetNode(source_nodes[Len(target_nodes) + 1]))
    /\ UNCHANGED <<source_nodes, nodes_pc>>
    /\ UNCHANGED <<pollVars, relVars, repVars>>

\* line 1030
ReturnNodes ==
    /\ nodes_pc = "loop"
    /\ Len(target_nodes) = Len(source_nodes)
    /\ nodes_pc' = "returned"
    /\ UNCHANGED <<source_nodes, target_nodes>>
    /\ UNCHANGED <<pollVars, relVars, repVars>>

NextNodes == TransformNode \/ ReturnNodes

SpecNodes == InitNodes /\ [][NextNodes]_vars

----------------------------------------------------------------------------
\* replicate_yba_kubernetes_universe against the remote instance. A lookup that
\* is answered tells how many universes carry the name at that moment.
InitReplicate ==
    /\ universes \in [src : 0..2, dst : 0..1]
    /\ \E w \in BOOLEAN, a \in OverrideChoices :
        rep = [NewReplicate(w, a) EXCEPT !.universes0 = universes]
    /\ PollOff
    /\ RelOff
    /\ NodesOff

RepFail(r, at, e) == [r EXCEPT !.pc = "done", !.failedAt = at, !.result = e]

\* lines 822-827
FindSource ==
    /\ rep.pc = "find_source"
    /\ \E x \in FindExchanges(universes.src, SourceIds) :
        LET r == SubmitStep(x)
            c == [rep EXCEPT !.reqs = Append(@, "find_source")]
        IN  rep' =
            IF r.kind = "raise" THEN RepFail(c, "find_source", r)
            ELSE IF ~SourceUnique(r.value)
                 THEN RepFail([c EXCEPT !.source_universe_id = r.value],
                              "source_check", UnableToFind)
            ELSE [c EXCEPT !.source_universe_id = r.value, !.pc = "get_source"]
    /\ UNCHANGED universes
    /\ UNCHANGED <<pollVars, relVars, nodeVars>>

\* lines 828-831
GetSource ==
    /\ rep.pc = "get_source"
    /\ \E x \in SourceExchanges :
        LET r == SubmitStep(x)
            c == [rep EXCEPT !.reqs = Append(@, "get_source")]
        IN  rep' =
            IF r.kind = "raise" THEN RepFail(c, "get_source", r)
            ELSE [c EXCEPT !.source_universe = r.value, !.pc = "find_dest"]
    /\ UNCHANGED universes
    /\ UNCHANGED <<pollVars, relVars, nodeVars>>

\* lines 834-942: the destination lookup, the check, and the payload built
\* from the source universe
FindDest ==
    /\ rep.pc = "find_dest"
    /\ \E x \in FindExchanges(universes.dst, DestinationIds) :
        LET r == SubmitStep(x)
            c == [rep EXCEPT !.reqs = Append(@, "find_dest")]
        IN  rep' =
            IF r.kind = "raise" THEN RepFail(c, "find_dest", r)
            ELSE IF DestinationTaken(r.value)
                 THEN RepFail([c EXCEPT !.destination_universe = r.value],
                              "dest_check", AlreadyExists)
            ELSE
                LET b == BuildConfigure(c.source_universe, c.source_name, c.name,
                                        c.ycql_password, c.ysql_password, c.args)
                    d == [c EXCEPT !.destination_universe = r.value]
                IN  IF b.kind = "raise" THEN RepFail(d, "build", b)
                    ELSE [d EXCEPT !.configure_universe = b.value, !.pc = "configure"]
    /\ UNCHANGED universes
    /\ UNCHANGED <<pollVars, relVars, nodeVars>>

\* lines 945-958
Configure ==
    /\ rep.pc = "configure"
    /\ \E x \in ConfigureExchanges(rep.configure_universe) :
        LET r == SubmitStep(x)
            c == [rep EXCEPT !.reqs = Append(@, "configure")]
        IN  rep' =
            IF r.kind = "raise" THEN RepFail(c, "configure", r)
            ELSE IF ~Has(r.value, "clusters")
                 THEN RepFail([c EXCEPT !.configure_response = r.value],
                              "restore", Raise("KeyError"))
            ELSE
                LET doc == RestorePasswords(r.value, c.ycql_password, c.ysql_password)
                    d == [c EXCEPT !.configure_response = r.value,
                                   !.configured_universe = doc]
                IN  IF ReturnsPreview(c.what_if)
                    THEN [d EXCEPT !.pc = "done", !.result = Return(Dumps(doc))]
                    ELSE [d EXCEPT !.pc = "create"]
    /\ UNCHANGED universes
    /\ UNCHANGED <<pollVars, relVars, nodeVars>>

\* lines 961-967 with lines 69-114 of the request: the remote creates the
\* universe when the request reaches it and is not refused
Create ==
    /\ rep.pc = "create"
    /\ \E x \in CreateExchanges, d \in 0..MaxReqDur :
        LET s == CreateStep(x, rep.customer_id) IN
        /\ rep' = [rep EXCEPT !.reqs = Append(@, "create"),
                              !.sent = rep.configured_universe,
                              !.create = x,
                              !.elapsed = d,
                              !.pc = s.pc,
                              !.result = s.result,
                              !.failedAt = IF s.result.kind = "raise" THEN "create" ELSE @]
        /\ universes' = IF Accepted(x) THEN [universes EXCEPT !.dst = @ + 1]
                        ELSE universes
    /\ UNCHANGED <<pollVars, relVars, nodeVars>>

\* line 117, and line 142 when the condition is false
AwaitTest ==
    /\ rep.pc = "await_test"
    /\ rep' = IF WithinBudget(rep.elapsed, DefaultWaitTimeout)
              THEN [rep EXCEPT !.pc = "await_poll"]
              ELSE [rep EXCEPT !.pc = "done",
                               !.result = AfterLoop(rep.json_task_response)]
    /\ UNCHANGED universes
    /\ UNCHANGED <<pollVars, relVars, nodeVars>>

\* lines 119-139
AwaitPoll ==
    /\ rep.pc = "await_poll"
    /\ \E x \in TaskExchanges, d \in 0..TaskReqTimeout :
        LET s == PollStep(x, rep.json_task_response) IN
        rep' =
            IF s.pc = "done"
            THEN [rep EXCEPT !.pc = "done", !.polled = TRUE,
                             !.json_task_response = s.task,
                             !.result = s.result,
                             !.failedAt = IF s.result.kind = "raise" THEN "await" ELSE @]
            ELSE [rep EXCEPT !.pc = "await_test", !.polled = TRUE,
                             !.json_task_response = s.task,
                             !.elapsed = @ + d + PollInterval]
    /\ UNCHANGED universes
    /\ UNCHANGED <<pollVars, relVars, nodeVars>>

NextReplicate ==
    FindSource \/ GetSource \/ FindDest \/ Configure \/ Create \/ AwaitTest \/ AwaitPoll

SpecReplicate == InitReplicate /\ [][NextReplicate]_vars

----------------------------------------------------------------------------
\* invoke_yba_request: the claims (specification Spec).

\* The parsed body of task-status exchange i, when it was parsed at all.
Fetched(i) == taskLog[i].net = "resp" /\ taskLog[i].isJson
LastPoll == taskLog[Len(taskLog)]

\* C1: the first fetched task status whose percent is 100 ends polling whatever
\* its status is: it is the last task-status request of the call, and the call
\* has returned that very object.
C1_Percent100EndsPolling ==
    \A i \in 1..Len(taskLog) :
        (Fetched(i) /\ Has(taskLog[i].body, "percent") /\ taskLog[i].body.percent = 100)
        => /\ i = Len(taskLog)
           /\ pc = "done"
           /\ result = Return(taskLog[i].body)

\* Scenario A with a status other than Success on the finishing poll.
C1_Witness ==
    /\ pc = "done"
    /\ Len(taskLog) = 2
    /\ taskLog[1].body = [percent |-> 50, status |-> "Running"]
    /\ taskLog[2].body = [percent |-> 100, status |-> "Running"]
    /\ result = Return(taskLog[2].body)

\* C2: the first fetched task status whose status is Failure or Aborted ends
\* polling even with percent below 100: it is the last task-status request of
\* the call, and the call has returned that very object.
C2_FailureAbortedEndsPolling ==
    \A i \in 1..Len(taskLog) :
        (/\ Fetched(i)
         /\ Has(taskLog[i].body, "percent") /\ Has(taskLog[i].body, "status")
         /\ taskLog[i].body.status \in {"Failure", "Aborted"}
         /\ taskLog[i].body.percent < 100)
        => /\ i = Len(taskLog)
           /\ pc = "done"
           /\ result = Return(taskLog[i].body)

C2_Witness ==
    /\ pc = "done"
    /\ Len(taskLog) = 2
    /\ taskLog[1].body = [percent |-> 50, status |-> "Running"]
    /\ taskLog[2].body = [percent |-> 50, status |-> "Aborted"]
    /\ result = Return(taskLog[2].body)

\* C3: when the wait budget runs out with no finished status fetched, the call
\* raises nothing and returns the last fetched task status, for every
\* wait_timeout and every duration of the submitted request.
C3_TimeoutReturnsLastFetched ==
    exitBy = "timeout"
    => /\ result.kind = "return"
       /\ Len(taskLog) > 0
       /\ result = Return(LastPoll.body)

\* C4: with no taskUUID in the submit response, or an empty customer_id, or
\* wait False, the call returns the submit response unchanged and issues no
\* task-status request.
C4_NoWaitReturnsSubmitResponse ==
    (/\ Len(submitted) = 1
     /\ Is2xx(submitted[1]) /\ submitted[1].isJson
     /\ (~wait \/ ~Has(submitted[1].body, "taskUUID") \/ customer_id = ""))
    => /\ pc = "done"
       /\ result = Return(submitted[1].body)
       /\ taskLog = <<>>

\* wait is asked for and a task was started, but there is no customer_id
C4_Witness ==
    /\ pc = "done"
    /\ wait /\ customer_id = ""
    /\ Len(submitted) = 1
    /\ submitted[1] = Resp(200, TRUE, [taskUUID |-> "t1"])
    /\ result = Return([taskUUID |-> "t1"])
    /\ taskLog = <<>>

\* C5: a transport failure of a task-status request fails the whole call at
\* once: it is the last task-status request, and the call has raised.
C5_PollTransportFailureAborts ==
    \A i \in 1..Len(taskLog) :
        taskLog[i].net = "fail"
        => /\ i = Len(taskLog)
           /\ pc = "done"
           /\ result = Raise("RuntimeError")

C5_Witness ==
    /\ pc = "done"
    /\ Len(taskLog) = 2
    /\ taskLog[1].body = [percent |-> 50, status |-> "Running"]
    /\ taskLog[2] = ConnFail
    /\ result = Raise("RuntimeError")

----------------------------------------------------------------------------
\* create_yba_release: the claims (specification SpecRelease).

Started(r) == r.pc # "idle"
Failed(r) == r.pc = "done" /\ r.result.kind = "raise"
Returned(r) == r.pc = "done" /\ r.result.kind = "return"
\* indexes of the releases of a list with the version
WithVersion(rs, v) == {i \in 1..Len(rs) : rs[i].version = v}
\* artifacts of the releases of the version that have the architecture
ArtifactsOf(rs, v, a) ==
    {<<i, j>> \in (1..Len(rs)) \X (1..4) :
        /\ rs[i].version = v
        /\ j <= Len(rs[i].artifacts)
        /\ rs[i].artifacts[j].architecture = a}
HasArch(release, a) ==
    \E j \in 1..Len(release.artifacts) : release.artifacts[j].architecture = a
Min(S) == CHOOSE m \in S : \A n \in S : m <= n

\* C6: once an invocation has returned for (version, architecture), a later
\* invocation that resolves to the same pair sends no create and no update
\* request, returns the release the remote holds for the version, and that
\* release holds exactly one artifact with the architecture.
C6_SecondReconcileIsNoop ==
    \A p \in Procs :
        LET r == rel[p] IN
        (r.resolved /\ Resolved(r) \in r.prior)
        => /\ r.sent = <<>>
           /\ r.pc \notin {"create", "update"}
           /\ Returned(r) =>
                \E i \in WithVersion(inventory, r.metadata.version) :
                    r.result.value = inventory[i]
           /\ Cardinality(ArtifactsOf(inventory, r.metadata.version,
                                      r.metadata.architecture)) = 1

\* the first invocation created the release, the second returned it
C6_Witness ==
    \E p \in Procs :
        LET r == rel[p] IN
        /\ Returned(r)
        /\ r.resolved /\ Resolved(r) \in r.prior
        /\ Len(r.inv0) = 1 /\ r.inv0[1].release_uuid = "u1"
        /\ r.result.value = inventory[1]

\* C7: when the fetched list holds a release with the extracted version and
\* none of its artifacts has the extracted architecture, the invocation sends
\* one PUT and no POST, and the PUT carries the fetched artifacts in their
\* order followed by the one new artifact {package_url, platform, architecture}.
C7_UpdateAppendsOneArtifact ==
    \A p \in Procs :
        LET r == rel[p]
            m == WithVersion(r.releases, r.metadata.version) IN
        (/\ r.listed
         /\ m # {}
         /\ ~HasArch(r.releases[Min(m)], r.metadata.architecture))
        => /\ r.pc \in {"update", "done"}
           /\ Len(r.sent) = (IF r.pc = "done" THEN 1 ELSE 0)
           /\ \A k \in 1..Len(r.sent) :
                /\ r.sent[k].method = "PUT"
                /\ r.sent[k].payload.release_uuid = r.releases[Min(m)].release_uuid
                /\ r.sent[k].payload.artifacts =
                     Append(r.releases[Min(m)].artifacts,
                            Art(r.package_url, r.metadata.platform,
                                r.metadata.architecture))

\* a release with two artifacts gets a third
C7_Witness ==
    \E p \in Procs :
        LET r == rel[p] IN
        /\ Returned(r)
        /\ r.branch = "update"
        /\ Len(r.selected.artifacts) = 2
        /\ Len(r.sent) = 1
        /\ Len(r.sent[1].payload.artifacts) = 3
        /\ r.sent[1].payload.artifacts[3].architecture = "aarch64"

\* C8: when no release of the fetched list has the extracted version, the
\* invocation sends one POST carrying that version and the package_url and no
\* PUT, and what it returns is the response to that POST.
C8_CreateWhenVersionAbsent ==
    \A p \in Procs :
        LET r == rel[p] IN
        (r.listed /\ WithVersion(r.releases, r.metadata.version) = {})
        => /\ r.pc \in {"create", "done"}
           /\ Len(r.sent) = (IF r.pc = "done" THEN 1 ELSE 0)
           /\ \A k \in 1..Len(r.sent) :
                /\ r.sent[k].method = "POST"
                /\ r.sent[k].payload.version = r.metadata.version
                /\ \E j \in 1..Len(r.sent[k].payload.artifacts) :
                     r.sent[k].payload.artifacts[j].package_url = r.package_url
           /\ Returned(r) => r.result = Return(r.sent[1].x.body)

\* Scenario B on a list that holds another version
C8_Witness ==
    \E p \in Procs :
        LET r == rel[p] IN
        /\ Returned(r)
        /\ r.listed /\ Len(r.releases) = 1
        /\ r.releases[1].version = "v1" /\ r.metadata.version = "v2"
        /\ Len(r.sent) = 1 /\ r.sent[1].method = "POST"
        /\ Len(inventory) = 2 /\ inventory[2].version = "v2"

\* C9 as claimed: whenever an invocation ends in failure, the remote inventory
\* is what it was before the invocation.
C9_FailureLeavesInventory ==
    \A p \in Procs :
        Failed(rel[p]) => inventory = rel[p].inv0

\* C9 as amended: an invocation that ends in failure before its create or
\* update request, or whose create or update request the remote rejected or
\* never got, leaves the inventory as it was before the invocation; the
\* inventory differs from it only by the one request the remote accepted.
C9_FailureWithoutAcceptedRequest ==
    \A p \in Procs :
        LET r == rel[p] IN
        Started(r) =>
            /\ (Failed(r) /\ (r.sent = <<>> \/ ~Accepted(r.sent[Len(r.sent)].x)))
                 => inventory = r.inv0
            /\ inventory # r.inv0
                 => /\ Len(r.sent) = 1
                    /\ Accepted(r.sent[1].x)
                    /\ \E i \in 1..Len(inventory) :
                         inventory[i].artifacts = r.sent[1].payload.artifacts

\* the artifact was appended locally and the PUT that carried it was rejected
C9_Witness ==
    \E p \in Procs :
        LET r == rel[p] IN
        /\ Failed(r)
        /\ r.branch = "update"
        /\ Len(r.sent) = 1
        /\ r.sent[1].x = Resp(500, TRUE, ErrorBody)
        /\ inventory = r.inv0

\* C10: after a non-2xx response to any request of the invocation, a status
\* poll of the extraction job included, the invocation issues no request.
C10_Non2xxAborts ==
    \A p \in Procs : ~rel[p].reqAfterNon2xx


\* C11: when the response to the extract_metadata submission carries no
\* resourceUUID, the call fails with a ValueError that carries that response,
\* and issues no extraction poll, no list fetch and no create or update request.
C11_MissingJobIdFails ==
    \A p \in Procs :
        LET r == rel[p] IN
        (Is2xx(r.submit) /\ r.submit.isJson /\ ~Has(r.submit.body, "resourceUUID"))
        => /\ r.pc = "done"
           /\ r.result = RaiseWith("ValueError", r.submit.body)
           /\ ~r.polled /\ ~r.listed /\ r.sent = <<>>

C11_Witness ==
    \E p \in Procs :
        /\ rel[p].pc = "done"
        /\ rel[p].submit = Resp(200, TRUE, [name |-> "n"])
        /\ rel[p].result = RaiseWith("ValueError", [name |-> "n"])
        /\ ~rel[p].polled

\* C12: when the extraction loop has ended and the last job response has no
\* version field, the call fails with a ValueError carrying that response,
\* after a timeout and after a terminal status alike, and no list fetch and no
\* create or update request follows.
C12_MissingVersionRaisesValueError ==
    \A p \in Procs :
        LET r == rel[p] IN
        r.failedAt = "version"
        => /\ r.result = RaiseWith("ValueError", r.metadata)
           /\ ~r.listed /\ r.sent = <<>>

----------------------------------------------------------------------------
\* _replicate_yba_kubernetes_universe_node_details: the claims (specification
\* SpecNodes).

RuntimeKeys == {"kubernetesPodName", "kubernetesNamespace", "private_ip"}

\* C19: for every input node list, no returned node has kubernetesPodName,
\* kubernetesNamespace or private_ip in its cloudInfo, and the returned list
\* has one node per input node, in input order.
C19_NoRuntimeKeysOneNodeEach ==
    nodes_pc = "returned" =>
        /\ Len(target_nodes) = Len(source_nodes)
        /\ \A i \in 1..Len(target_nodes) :
             /\ DOMAIN target_nodes[i].cloudInfo \cap RuntimeKeys = {}
             /\ target_nodes[i].nodeIdx = Get(source_nodes[i], "nodeIdx")
             /\ target_nodes[i].isMaster = Get(source_nodes[i], "isMaster")
             /\ DOMAIN target_nodes[i].cloudInfo =
                    DOMAIN GetOr(source_nodes[i], "cloudInfo", EmptyDict) \ RuntimeKeys

\* two nodes, the second with all three keys, the first with private_ip only
C19_Witness ==
    /\ nodes_pc = "returned"
    /\ Len(source_nodes) = 2
    /\ source_nodes[1].nodeIdx = "2" /\ source_nodes[2].nodeIdx = "1"
    /\ Has(source_nodes[1], "cloudInfo") /\ Has(source_nodes[2], "cloudInfo")
    /\ ~Has(source_nodes[1].cloudInfo, "kubernetesPodName")
    /\ Has(source_nodes[2].cloudInfo, "kubernetesNamespace")
    /\ target_nodes[1].cloudInfo = [az |-> "a"]
    /\ target_nodes[2].cloudInfo = [az |-> "a"]

\* C20: every returned node whose source has isMaster true has masterState
\* ToStart, isRedisServer true and dedicatedTo MASTER, whatever the source held
\* there; a returned node whose source is no master has no masterState key;
\* every returned node has state ToBeAdded.
C20_MasterDefaultsAndState ==
    nodes_pc = "returned" =>
        \A i \in 1..Len(target_nodes) :
            LET node == source_nodes[i]
                t == target_nodes[i]
            IN  /\ t.state = "ToBeAdded"
                /\ Get(node, "isMaster") = "true"
                     => /\ Has(t, "masterState") /\ t.masterState = "ToStart"
                        /\ Has(t, "isRedisServer") /\ t.isRedisServer = "true"
                        /\ t.dedicatedTo = "MASTER"
                /\ Get(node, "isMaster") # "true" => ~Has(t, "masterState")

\* a master that was Configured and dedicated to TSERVER, next to a node with a
\* masterState of its own that is no master
C20_Witness ==
    /\ nodes_pc = "returned"
    /\ Len(source_nodes) = 2
    /\ Get(source_nodes[1], "isMaster") = "true"
    /\ Get(source_nodes[1], "masterState") = "Configured"
    /\ Get(source_nodes[1], "dedicatedTo") = "TSERVER"
    /\ Get(source_nodes[2], "isMaster") = "false"
    /\ Has(source_nodes[2], "masterState")
    /\ target_nodes[1].masterState = "ToStart"
    /\ ~Has(target_nodes[2], "masterState")

----------------------------------------------------------------------------
\* replicate_yba_kubernetes_universe: the claims (specification SpecReplicate).

Requested(k) == \E i \in 1..Len(rep.reqs) : rep.reqs[i] = k
\* the lookup of source_name was answered with no id or with several
SourceNotUnique ==
    Has(rep.source_universe_id, "items") /\ Len(rep.source_universe_id.items) # 1
\* the lookup of the new name was answered with an id
DestinationFound ==
    Has(rep.destination_universe, "items") /\ Len(rep.destination_universe.items) > 0
PasswordsAre(doc, ycql_password, ysql_password) ==
    \A i \in 1..Len(doc.clusters) :
        LET u == doc.clusters[i].userIntent IN
        /\ Has(u, "ycqlPassword") /\ u.ycqlPassword = ycql_password
        /\ Has(u, "ysqlPassword") /\ u.ysqlPassword = ysql_password

\* C13 as claimed: when the new name already resolves to a universe the call
\* fails and the only requests it has issued are the two name lookups.
C13_OnlyTheTwoLookups ==
    DestinationFound
    => /\ Failed(rep)
       /\ rep.reqs = <<"find_source", "find_dest">>

\* C13 as amended: when the new name already resolves to a universe the call
\* fails at the check that follows the destination lookup, having issued the
\* source lookup, the fetch of the source universe and the destination lookup,
\* in this order, and nothing else.
C13_FailsAfterThreeReads ==
    DestinationFound
    => /\ Failed(rep)
       /\ rep.failedAt = "dest_check"
       /\ rep.reqs = <<"find_source", "get_source", "find_dest">>

C13_Witness ==
    /\ DestinationFound
    /\ rep.pc = "done"
    /\ rep.source_universe # Unbound
    /\ Len(rep.reqs) = 3

\* C14: when the new name already resolves to a universe the call fails with
\* the name-collision error, and neither the configure POST nor the create POST
\* is sent.
C14_CollisionSendsNoPost ==
    DestinationFound
    => /\ rep.pc = "done"
       /\ rep.result = AlreadyExists
       /\ ~Requested("configure") /\ ~Requested("create")
       /\ rep.configure_universe = NoPayload /\ rep.sent = NoPayload
       /\ universes = rep.universes0

C14_Witness ==
    /\ DestinationFound
    /\ rep.result = AlreadyExists
    /\ universes.dst = 1

\* C15: when the lookup of source_name returns no id or more than one, the
\* call fails with the unable-to-find error, the same in both cases, and no
\* request follows the lookup.
C15_SourceNotUniqueFails ==
    SourceNotUnique
    => /\ rep.pc = "done"
       /\ rep.result = UnableToFind
       /\ rep.reqs = <<"find_source">>

C15_Witness ==
    /\ Has(rep.source_universe_id, "items")
    /\ Len(rep.source_universe_id.items) = 2
    /\ rep.result = UnableToFind

\* C16: whatever the configure response holds in its password fields, every
\* cluster of the payload sent to the create endpoint, and of the preview
\* document, holds the caller's ycqlPassword and ysqlPassword.
C16_PasswordsRestored ==
    /\ rep.sent # NoPayload
         => PasswordsAre(rep.sent, rep.ycql_password, rep.ysql_password)
    /\ (rep.what_if /\ Returned(rep))
         => PasswordsAre(rep.result.value.dumps, rep.ycql_password, rep.ysql_password)

\* two clusters came back with the placeholder and were sent with the
\* caller's values
C16_Witness ==
    /\ rep.sent # NoPayload
    /\ Len(rep.sent.clusters) = 2
    /\ Has(rep.configure_response.clusters[2].userIntent, "ysqlPassword")
    /\ rep.configure_response.clusters[2].userIntent.ysqlPassword = "REDACTED"
    /\ rep.sent.clusters[2].userIntent.ysqlPassword = "sqlpw"
    /\ rep.sent.clusters[1].userIntent.ycqlPassword = "cqlpw"

\* C17: with what_if the call returns the configure response (passwords put
\* back) as its result, sends no create request and no task-status request,
\* and its only POST is the one configure request.
C17_PreviewSendsNoCreate ==
    rep.what_if
    => /\ ~Requested("create") /\ ~rep.polled
       /\ universes = rep.universes0
       /\ Returned(rep)
            => /\ rep.result.value =
                    Dumps(RestorePasswords(rep.configure_response,
                                           rep.ycql_password, rep.ysql_password))
               /\ rep.reqs = <<"find_source", "get_source", "find_dest", "configure">>

C17_Witness ==
    /\ rep.what_if
    /\ Returned(rep)
    /\ Requested("configure")
    /\ Has(rep.result.value, "dumps")

\* C18 as claimed: whenever the call ends in failure, the remote has accepted
\* no universe creation.
C18_FailureLeavesNoUniverse ==
    Failed(rep) => universes = rep.universes0

\* C18 as amended: a call that ends in failure before its create request, or
\* whose create request the remote refused or never got, leaves the remote
\* universes as they were; they differ from what they were only by the one
\* create request the remote accepted.
C18_FailureWithoutAcceptedCreate ==
    rep.pc # "off"
    => /\ (Failed(rep) /\ ~Accepted(rep.create)) => universes = rep.universes0
       /\ universes # rep.universes0
            => /\ Accepted(rep.create)
               /\ universes = [rep.universes0 EXCEPT !.dst = @ + 1]
               /\ rep.reqs = <<"find_source", "get_source", "find_dest",
                               "configure", "create">>

\* the create request was refused
C18_Witness ==
    /\ Failed(rep)
    /\ rep.create = Resp(500, TRUE, ErrorBody)
    /\ Requested("create")
    /\ universes = rep.universes0

----------------------------------------------------------------------------
\* create_yba_release, one invocation after the other: the inventory
\* (specification SpecRelease).

\* C21: started from an inventory with at most one release per version and at
\* most one artifact per architecture in a release, invocations that do not
\* overlap keep both properties in every inventory they reach.
C21_InventoryStaysUnique ==
    /\ \A i, j \in 1..Len(inventory) :
         inventory[i].version = inventory[j].version => i = j
    /\ \A i \in 1..Len(inventory) :
         \A a, b \in 1..Len(inventory[i].artifacts) :
            inventory[i].artifacts[a].architecture = inventory[i].artifacts[b].architecture
            => a = b

\* a release was created by one invocation and given an artifact by the next
C21_Witness ==
    /\ calls = 2
    /\ nextId = 2
    /\ rel[1].pc = "done"
    /\ rel[1].branch = "update"
    /\ Len(rel[1].sent) = 1 /\ Is2xx(rel[1].sent[1].x)
    /\ rel[1].selected.release_uuid = UuidPool[1]
    /\ Len(inventory[Len(inventory)].artifacts) = 2

----------------------------------------------------------------------------
\* create_yba_release, two invocations at the same time (specification
\* SpecConcurrent).

\* C22: when two invocations at the same time have selected the same release as
\* they both read it, for two different architectures it lacks, and both of
\* their update requests succeeded, the release the remote holds afterwards
\* has one artifact more than was read, and lacks the artifact one of the two
\* appended.
C22_LostUpdate ==
    \A p, q \in Procs :
        LET a == rel[p]
            b == rel[q]
        IN  (/\ p # q
             /\ Returned(a) /\ Returned(b)
             /\ a.branch = "update" /\ b.branch = "update"
             /\ a.selected = b.selected
             /\ a.metadata.architecture # b.metadata.architecture)
            => \E i \in 1..Len(inventory) :
                 /\ inventory[i].release_uuid = a.selected.release_uuid
                 /\ Len(inventory[i].artifacts) = Len(a.selected.artifacts) + 1
                 /\ \E l \in {a, b} :
                      \A k \in 1..Len(inventory[i].artifacts) :
                         inventory[i].artifacts[k] #
                            Art(l.package_url, l.metadata.platform, l.metadata.architecture)

\* both read release id1 with its one artifact, both PUTs were answered 200
C22_Witness ==
    /\ Returned(rel[1]) /\ Returned(rel[2])
    /\ rel[1].branch = "update" /\ rel[2].branch = "update"
    /\ rel[1].selected = rel[2].selected
    /\ rel[1].metadata.architecture = "aarch64"
    /\ rel[2].metadata.architecture = "ppc64le"
    /\ Is2xx(rel[1].sent[1].x) /\ Is2xx(rel[2].sent[1].x)
    /\ Len(inventory) = 1 /\ Len(inventory[1].artifacts) = 2

----------------------------------------------------------------------------
\* create_yba_release: the extraction loop (specification SpecLive).

\* C23: each time the loop condition is tested, another fetch of the job is
\* issued exactly when less than 30 s have passed and the latest job response
\* has no status or has status running; no fetch is about to be issued after a
\* response with a status other than running.
C23_FetchExactlyWhileRunning ==
    /\ [](\A p \in Procs :
            rel[p].pc = "extract_poll"
            => /\ rel[p].elapsed < ExtractTimeout
               /\ ~Has(rel[p].metadata, "status") \/ rel[p].metadata.status = "running")
    /\ [][\A p \in Procs :
            (rel[p].pc = "extract_test" /\ rel'[p].pc # "extract_test")
            => ((rel'[p].pc = "extract_poll")
                <=> (/\ rel[p].elapsed < ExtractTimeout
                     /\ \/ ~Has(rel[p].metadata, "status")
                        \/ rel[p].metadata.status = "running"))]_vars

\* the job was still running when the 30 s were over
C23_Witness ==
    /\ rel[1].pc = "done"
    /\ rel[1].polled
    /\ rel[1].failedAt = "version"
    /\ rel[1].metadata = [status |-> "running"]

----------------------------------------------------------------------------
\* invoke_yba_request: the wait budget (specification Spec).

\* C24: whenever a waiting call returns a task object that is not terminal
\* (percent is not 100 and status is neither Failure nor Aborted), at least
\* wait_timeout seconds have passed since the call started.
C24_NoEarlyGiveUp ==
    (/\ pc = "done"
     /\ result.kind = "return"
     /\ exitBy # "nowait"
     /\ result.value.percent # 100
     /\ result.value.status \notin {"Failure", "Aborted"})
    => /\ result.value = json_task_response
       /\ elapsed >= wait_timeout

\* a task still at 50 percent is returned after two polls
C24_Witness ==
    /\ pc = "done"
    /\ result = Return([percent |-> 50, status |-> "Running"])
    /\ Len(taskLog) = 2
    /\ wait_timeout >= 3
    /\ elapsed >= wait_timeout

----------------------------------------------------------------------------
\* The loops end (specification SpecLive).

\* C25: every waiting call of invoke_yba_request and every extraction loop of
\* create_yba_release ends, by a return or by an error, also when the remote
\* task or job never gets to a terminal state.
C25_LoopsEnd ==
    <>(/\ pc \in {"off", "done"}
       /\ rel[1].pc \in {"idle", "done", "list"})

\* the task was running at every poll and the call came back
C25_Witness ==
    /\ pc = "done"
    /\ exitBy = "timeout"
    /\ Len(taskLog) >= 2
    /\ \A i \in 1..Len(taskLog) :
         taskLog[i] = Resp(200, TRUE, [percent |-> 50, status |-> "Running"])

----------------------------------------------------------------------------
\* replicate_yba_kubernetes_universe: the two phases (specification
\* SpecReplicate).

\* C26: the create request is issued at most once, and only after the source
\* lookup returned exactly one id, the destination lookup returned none and the
\* configure request returned; what it carries is the configure response with
\* the passwords put back, not the document built from the source universe.
C26_CreateOnceAfterConfigure ==
    Requested("create")
    => /\ rep.reqs = <<"find_source", "get_source", "find_dest", "configure", "create">>
       /\ Len(rep.source_universe_id.items) = 1
       /\ Len(rep.destination_universe.items) = 0
       /\ Has(rep.configure_response, "clusters")
       /\ rep.sent = RestorePasswords(rep.configure_response,
                                      rep.ycql_password, rep.ysql_password)
       /\ rep.sent # rep.configure_universe

\* the create request was answered with a task and carried what the remote
\* had filled in
C26_Witness ==
    /\ Requested("create")
    /\ rep.create = Resp(200, TRUE, [taskUUID |-> "t1"])
    /\ ~Has(rep.configure_universe, "currentClusterType")
    /\ Has(rep.sent, "currentClusterType")
    /\ rep.polled

----------------------------------------------------------------------------
\* _replicate_yba_kubernetes_universe_node_details: what is copied
\* (specification SpecNodes).

\* C27: every returned node carries each role flag and each port of its source
\* node with the same value, but for what lines 1023-1026 set on a master.
C27_FlagsAndPortsCopied ==
    nodes_pc = "returned" =>
        \A i \in 1..Len(target_nodes) :
            LET node == source_nodes[i]
                t == target_nodes[i]
            IN  /\ Get(t, "isMaster") = Get(node, "isMaster")
                /\ Get(t, "isTserver") = Get(node, "isTserver")
                /\ Get(t, "masterHttpPort") = Get(node, "masterHttpPort")
                /\ Get(node, "isMaster") # "true"
                     => Get(t, "isRedisServer") = Get(node, "isRedisServer")

----------------------------------------------------------------------------
\* replicate_yba_kubernetes_universe: the configure payload (specification
\* SpecReplicate).

\* C28: with one source universe and a free new name, whatever the source
\* universe has for xclusterInfo (no block, a block without
\* sourceRootCertDirPath, a block with it), the configure payload is built and
\* its xclusterInfo has no sourceRootCertDirPath.
C28_ReachesConfigureWithoutCertPath ==
    (/\ Has(rep.destination_universe, "items")
     /\ Len(rep.destination_universe.items) = 0
     /\ Has(rep.source_universe, "universeDetails")
     /\ Has(rep.source_universe.universeDetails, "nodePrefix")
     /\ rep.args = NoOverrides)
    => /\ rep.configure_universe # NoPayload
       /\ ~Has(rep.configure_universe.xclusterInfo, "sourceRootCertDirPath")


\* C29: in the configure payload every cluster has the new name as
\* universeName and the caller's two passwords; with master_cpus or
\* master_memory given, a cluster without a masterK8SNodeResourceSpec block
\* makes the call fail nowhere and gets no such block, and a cluster with the
\* block gets the values given.
C29_ClusterOverrides ==
    /\ rep.configure_universe # NoPayload
         => LET src == rep.source_universe.universeDetails.clusters
                out == rep.configure_universe.clusters
            IN  /\ Len(out) = Len(src)
                /\ \A i \in 1..Len(out) :
                     LET u == out[i].userIntent
                         block == "masterK8SNodeResourceSpec"
                     IN  /\ u.universeName = rep.name
                         /\ u.ycqlPassword = rep.ycql_password
                         /\ u.ysqlPassword = rep.ysql_password
                         /\ Has(u, block) <=> Has(src[i].userIntent, block)
                         /\ (Has(u, block) /\ rep.args.master_cpus # Null)
                              => u[block].cpuCoreCount = rep.args.master_cpus
                         /\ (Has(u, block) /\ rep.args.master_memory # Null)
                              => u[block].memoryGib = rep.args.master_memory
    /\ (/\ Has(rep.destination_universe, "items")
        /\ Len(rep.destination_universe.items) = 0
        /\ Has(rep.source_universe, "universeDetails")
        /\ Has(rep.source_universe.universeDetails, "nodePrefix")
        /\ Has(GetOr(rep.source_universe.universeDetails, "xclusterInfo", EmptyDict),
               "sourceRootCertDirPath")
        /\ rep.source_universe.universeDetails.clusters = <<PrimaryCluster, ReplicaCluster>>
        /\ rep.args.master_cpus # Null)
         => rep.configure_universe # NoPayload

\* a primary and a read replica, master_cpus given
C29_Witness ==
    /\ rep.configure_universe # NoPayload
    /\ rep.args.master_cpus = "8" /\ rep.args.master_memory = Null
    /\ Len(rep.configure_universe.clusters) = 2
    /\ Has(rep.configure_universe.clusters[2].userIntent, "tserverK8SNodeResourceSpec")
    /\ ~Has(rep.configure_universe.clusters[2].userIntent, "masterK8SNodeResourceSpec")
    /\ rep.configure_universe.clusters[1].userIntent.masterK8SNodeResourceSpec
         = [cpuCoreCount |-> "8", memoryGib |-> "4"]
    /\ rep.configure_universe.clusters[2].userIntent.universeName = NewName

----------------------------------------------------------------------------
\* invoke_yba_request: a request that gets no response (specification Spec).

\* C30: when the submitted request gets no HTTP response at all, the call
\* raises the RuntimeError of line 104, after the one attempt and without
\* polling.
C30_ConnectionFailureIsRuntimeError ==
    (Len(submitted) >= 1 /\ submitted[1].net # "resp")
    => /\ pc = "done"
       /\ result = Raise("RuntimeError")
       /\ Len(submitted) = 1
       /\ taskLog = <<>>

----------------------------------------------------------------------------
\* create_yba_release, two invocations at the same time, for a version the
\* remote does not hold (specification SpecConcurrent).

\* C31: when the packages of two invocations at the same time resolve to the
\* same version and the inventory they started from has no release with that
\* version, at most one of them issues the POST of line 624, and the inventory
\* never holds two releases with that version.
C31_AtMostOneCreate ==
    \A p, q \in Procs :
        LET v == rel[p].metadata.version
            Posted(c) == \E k \in 1..Len(c.sent) : c.sent[k].method = "POST" IN
        (/\ p # q
         /\ rel[q].metadata.version = v
         /\ \A i \in 1..Len(rel[p].inv0) : rel[p].inv0[i].version # v)
        => /\ ~(Posted(rel[p]) /\ Posted(rel[q]))
           /\ \A i, j \in 1..Len(inventory) :
                (inventory[i].version = v /\ inventory[j].version = v) => i = j

====
